---- MODULE Spec2Model ----
(***************************************************************************)
(* Model of the UI5 language server (packages/language-server/src/server.ts)*)
(* and of the semantic-model utilities appended to it (getParentFqn,        *)
(* findValueInMaps, forEachSymbol).                                         *)
(*                                                                          *)
(* Strings are sequences of tokens (a token is an indivisible run of        *)
(* characters), so endsWith / substring are computed, not looked up.        *)
(***************************************************************************)
EXTENDS Integers, Sequences, FiniteSets, TLC

VARIABLES
  \* ---- server.ts module state
  openDocs,                  \* documents.all(): the open documents, in order
  manifestStateInitialized,  \* server.ts:54
  ui5yamlStateInitialized,   \* server.ts:55
  hasConfigurationCapability,\* server.ts:57
  init,                      \* the onInitialize invocation
  settingsDocs,              \* documents with cached settings (settings package)
  clientDiagnostics,         \* per document: the diagnostics last sent for it
  configurationRequests,     \* per document: workspace/configuration requests
                             \* sent for it since its settings were last cleared
  globalSettings,            \* settings package: the global settings
  configurationSettings,     \* settings package: the configuration settings
  changeSettings,            \* change.settings.UI5LanguageAssistant of the last
                             \* didChangeConfiguration notification
  configChanges,             \* didChangeConfiguration notifications so far
  \* ---- the observed onDidChangeWatchedFiles invocation
  changes,                   \* changeEvent.changes
  rx,                        \* per change: state of the reaction started for it
  cdsFileEvents,             \* the list handed to reactOnCdsFileChange
  cdsState,                  \* state of the reactOnCdsFileChange promise
  callLog,                   \* calls made by the synchronous part, in order
  wfPc,                      \* position of the handler
  found,                     \* validateOpenDocuments: result of changes.find
  allDocuments,              \* validateOpenDocuments: snapshot of documents.all()
  vIdx,                      \* validateOpenDocuments: loop position
  wfOut,                     \* messages the invocation sent to the client
  \* ---- the observed document request (completion, hover, change, code action)
  req,
  \* ---- getParentFqn
  fqn, name, parentFqn, fqnPc,
  \* ---- forEachSymbol
  model, iterRet, mapIdx, keyIdx, visited, fesPc,
  \* ---- findValueInMaps
  findKey, findMaps, findResult,
  \* ---- CatalogCache (context package)
  catalogCache,              \* per key: absent, pending or loaded
  inFlight,                  \* per key: underlying fetches in flight
  fetchCount,                \* per key: underlying fetches started so far
  loadReqs,                  \* the load requests made, each with its outcome
  \* ---- ContextBuilder cache (context package)
  contextCache,              \* per project root: the cached Context
  generation,                \* per project root: recomputations started
  recomputing,               \* per project root: markers of those in flight
  completed,                 \* per project root: markers completed, in order
  \* ---- VersionResolver (context package)
  declared, online, resolved, verPc

watchVars == <<changes, rx, cdsFileEvents, cdsState, callLog, wfPc, found,
               allDocuments, vIdx, wfOut>>
setVars == <<configurationRequests, globalSettings, configurationSettings,
             changeSettings, configChanges>>
serverVars == <<openDocs, manifestStateInitialized, ui5yamlStateInitialized,
                hasConfigurationCapability, init, settingsDocs,
                clientDiagnostics, setVars>>
fqnVars == <<fqn, name, parentFqn, fqnPc>>
findVars == <<findKey, findMaps, findResult>>
symVars == <<model, iterRet, mapIdx, keyIdx, visited, fesPc, findVars>>
cacheVars == <<catalogCache, inFlight, fetchCount, loadReqs>>
ctxVars == <<contextCache, generation, recomputing, completed>>
verVars == <<declared, online, resolved, verPc>>
pkgVars == <<cacheVars, ctxVars, verVars>>
vars == <<serverVars, watchVars, req, fqnVars, symVars, pkgVars>>

(***************************************************************************)
(* Bounds                                                                   *)
(***************************************************************************)
MaxChanges == 2      \* changes in one watched-files notification (Spec)
MaxBurstDoc == 1     \* changes in one notification (SpecDoc)
MaxLen == 3          \* tokens in a string handed to getParentFqn
MaxKeys == 2         \* distinct FQNs a semantic model may use
MaxSymbols == 3      \* entries of a semantic model, over its six collections
MaxLoads == 3        \* load requests made to the CatalogCache
MaxRecomputations == 3  \* recomputations started per project root
MaxPatch == 1        \* highest patch number of a declared version
MaxRequests == 2     \* workspace/configuration requests counted per document
MaxConfigChanges == 2   \* didChangeConfiguration notifications in a behaviour

(***************************************************************************)
(* String primitives (ECMAScript String.prototype)                          *)
(***************************************************************************)
\* s.substring(from, to): the tokens from index from (0-based) up to to
substring(s, from, to) == SubSeq(s, from + 1, to)

\* s.endsWith(t): t occupies the last t.length positions of s
endsWith(s, t) ==
  /\ Len(t) <= Len(s)
  /\ substring(s, Len(s) - Len(t), Len(s)) = t

\* lodash isEmpty on a string
isEmpty(s) == Len(s) = 0

\* the value undefined, distinct from every string
None == <<"undefined">>

(***************************************************************************)
(* URIs of the model. A token never straddles a suffix the code tests for.  *)
(***************************************************************************)
UManifest == <<"/app/webapp/", "manifest.json">>
UYaml == <<"/app/", "ui5.yaml">>
UCdsA == <<"/app/srv/a", ".cds">>
UCdsB == <<"/app/srv/b", ".cds">>
UView == <<"/app/webapp/Main.", "view", ".xml">>
UXml == <<"/app/pom", ".xml">>
UPackage == <<"/app/", "package.json">>
UOther == <<"/app/readme", ".txt">>

\* paths a watched-files notification may carry
Uris == {UManifest, UYaml, UCdsA, UCdsB, UView, UXml, UPackage, UOther}

\* documents the editor may open
Docs == {UView, UManifest}

\* @ui5-language-assistant/logic-utils isXMLView: /(view|fragment)\.xml$/
isXMLView(uri) ==
  \/ endsWith(uri, <<"view", ".xml">>)
  \/ endsWith(uri, <<"fragment", ".xml">>)

(***************************************************************************)
(* Values returned by getContext (@ui5-language-assistant/context)          *)
(***************************************************************************)
ContextA ==
  [ui5Model |-> [version |-> "1.71.49", isFallback |-> TRUE,
                 isIncorrectVersion |-> TRUE],
   yamlDetails |-> [framework |-> "SAPUI5"]]
ContextB ==
  [ui5Model |-> [version |-> "1.108.0", isFallback |-> FALSE,
                 isIncorrectVersion |-> FALSE],
   yamlDetails |-> [framework |-> "OpenUI5"]]
ContextError == [code |-> "ContextError"]
NoContext == [code |-> "unset"]
Contexts == {ContextA, ContextB}
GetContextResults == Contexts \cup {ContextError}

\* isContext: a Context carries a ui5Model, a ContextError does not
isContext(v) == "ui5Model" \in DOMAIN v

(***************************************************************************)
(* Messages sent to the client                                              *)
(***************************************************************************)
ContextErrorNotification(context) ==
  [method |-> "UI5LanguageAssistant/context-error", params |-> context]

Ui5ModelNotification(url, framework, version, isFallback, isIncorrectVersion) ==
  [method |-> "UI5LanguageAssistant/ui5Model",
   params |-> [url |-> url, framework |-> framework, version |-> version,
               isFallback |-> isFallback,
               isIncorrectVersion |-> isIncorrectVersion]]

\* getXMLViewDiagnostics({document, context}): the diagnostics it derives
getXMLViewDiagnostics(document, context) ==
  <<[document |-> document, context |-> context]>>

PublishDiagnostics(uri, diagnostics) ==
  [method |-> "textDocument/publishDiagnostics",
   params |-> [uri |-> uri, diagnostics |-> diagnostics]]

\* the client takes the messages a handler step sent, in order: a
\* publishDiagnostics message replaces the diagnostics shown for its document
RECURSIVE deliver(_, _, _)
deliver(view, msgs, i) ==
  IF i > Len(msgs) THEN view
  ELSE deliver(IF msgs[i].method = "textDocument/publishDiagnostics"
               THEN [view EXCEPT ![msgs[i].params.uri] =
                       msgs[i].params.diagnostics]
               ELSE view,
               msgs, i + 1)

(***************************************************************************)
(* connection.onDidChangeWatchedFiles (server.ts:269-290)                   *)
(***************************************************************************)
\* a chain without the branch that collects the .cds changes
BranchWithoutCds(uri) ==
  IF endsWith(uri, <<"manifest.json">>) THEN "reactOnManifestChange"
  ELSE IF endsWith(uri, <<"ui5.yaml">>) THEN "reactOnUI5YamlChange"
  ELSE IF endsWith(uri, <<".xml">>) THEN "reactOnXmlFileChange"
  ELSE IF endsWith(uri, <<"package.json">>) THEN "reactOnPackageJson"
  ELSE "none"

\* the if / else-if chain of the forEach callback: which call a path selects
Branch(uri) ==
  IF endsWith(uri, <<"manifest.json">>) THEN "reactOnManifestChange"
  ELSE IF endsWith(uri, <<"ui5.yaml">>) THEN "reactOnUI5YamlChange"
  ELSE IF endsWith(uri, <<".cds">>) THEN "push"
  ELSE IF endsWith(uri, <<".xml">>) THEN "reactOnXmlFileChange"
  ELSE IF endsWith(uri, <<"package.json">>) THEN "reactOnPackageJson"
  ELSE "none"

Reactions == {"reactOnManifestChange", "reactOnUI5YamlChange",
              "reactOnXmlFileChange", "reactOnPackageJson"}

\* One invocation of the async callback, up to its first suspension. A
\* reaction that throws synchronously rejects the callback's promise, which
\* nobody holds; the reaction is otherwise left pending.
callback(acc, change, i, throws) ==
  LET fn == Branch(change) IN
  IF fn \in Reactions
  THEN [acc EXCEPT !.rx[i] = IF throws THEN "failed" ELSE "pending",
                   !.callLog = Append(@, [fn |-> fn, idx |-> i])]
  ELSE IF fn = "push"
  THEN [acc EXCEPT !.rx[i] = "batched",
                   !.cdsFileEvents = Append(@, change),
                   !.callLog = Append(@, [fn |-> fn, idx |-> i])]
  ELSE [acc EXCEPT !.rx[i] = "none"]

\* a forEach that stops at the first callback whose reaction throws
RECURSIVE forEachUntilThrow(_, _, _, _)
forEachUntilThrow(collection, thrown, i, acc) ==
  IF i > Len(collection) THEN acc
  ELSE IF i \in thrown THEN callback(acc, collection[i], i, TRUE)
  ELSE forEachUntilThrow(collection, thrown, i + 1,
                         callback(acc, collection[i], i, FALSE))

\* a forEach that walks the collection from its last element to its first
RECURSIVE forEachRight(_, _, _, _)
forEachRight(collection, thrown, i, acc) ==
  IF i > Len(collection) THEN acc
  ELSE LET k == Len(collection) + 1 - i IN
       forEachRight(collection, thrown, i + 1,
                    callback(acc, collection[k], k, k \in thrown))

\* lodash forEach(collection, async callback): every callback is invoked in
\* index order and its promise dropped; no callback returns false, so the
\* walk never exits early
RECURSIVE forEach(_, _, _, _)
forEach(collection, thrown, i, acc) ==
  IF i > Len(collection) THEN acc
  ELSE forEach(collection, thrown, i + 1,
               callback(acc, collection[i], i, i \in thrown))

\* No handler invocation is being observed. The model follows one handler
\* invocation at a time, from its call to its end.
NoHandlerInFlight ==
  /\ wfPc = "idle"
  /\ req.pc = "idle"

ReqIdle ==
  [kind |-> "none", uri |-> <<>>, pc |-> "idle", context |-> NoContext,
   out |-> <<>>, calls |-> 0]

\* lines 269-288 up to the suspension at `await reactOnCdsFileChange(...)`
OnDidChangeWatchedFiles(uris, maxLen) ==
  /\ NoHandlerInFlight
  /\ \E n \in 0..maxLen : \E chs \in [1..n -> uris] :
     \E thrown \in SUBSET {i \in 1..n : Branch(chs[i]) \in Reactions} :
       LET r == forEach(chs, thrown, 1,
                        [rx |-> [i \in 1..n |-> "unvisited"],
                         cdsFileEvents |-> <<>>, callLog |-> <<>>])
       IN /\ changes' = chs
          /\ rx' = r.rx
          /\ cdsFileEvents' = r.cdsFileEvents
          /\ callLog' = Append(r.callLog,
                               [fn |-> "reactOnCdsFileChange", idx |-> 0])
  /\ cdsState' = "pending"
  /\ wfPc' = "awaitCds"
  /\ UNCHANGED <<serverVars, found, allDocuments, vIdx, wfOut, req, fqnVars,
                 symVars, pkgVars>>

\* a per-file reaction runs to completion: its cache effect is applied
ReactionResolve ==
  /\ \E i \in DOMAIN rx :
       /\ rx[i] = "pending"
       /\ rx' = [rx EXCEPT ![i] = "done"]
  /\ UNCHANGED <<serverVars, changes, cdsFileEvents, cdsState, callLog, wfPc,
                 found, allDocuments, vIdx, wfOut, req, fqnVars, symVars, pkgVars>>

\* a per-file reaction fails: its promise rejects
ReactionReject ==
  /\ \E i \in DOMAIN rx :
       /\ rx[i] = "pending"
       /\ rx' = [rx EXCEPT ![i] = "failed"]
  /\ UNCHANGED <<serverVars, changes, cdsFileEvents, cdsState, callLog, wfPc,
                 found, allDocuments, vIdx, wfOut, req, fqnVars, symVars, pkgVars>>

supportedDocs ==
  {<<"manifest.json">>, <<"ui5.yaml">>, <<".cds">>, <<".xml">>,
   <<"package.json">>}

\* a find that does not set XML views aside
findSupportedAnyFile(chs) ==
  \E i \in 1..Len(chs) :
    \E doc \in supportedDocs : endsWith(chs[i], doc)

\* validateOpenDocuments lines 235-239: changes.find(...)
findSupported(chs) ==
  \E i \in 1..Len(chs) :
    /\ ~isXMLView(chs[i])
    /\ \E doc \in supportedDocs : endsWith(chs[i], doc)

\* a loop body that goes on to the next document after a ContextError
validateDocumentContinue(document, context, out) ==
  IF ~isContext(context)
  THEN [out |-> Append(out, ContextErrorNotification(context)),
        continue |-> TRUE]
  ELSE [out |-> Append(out, PublishDiagnostics(document,
                              getXMLViewDiagnostics(document, context))),
        continue |-> TRUE]

\* validateOpenDocuments lines 251-265: the loop body after getContext resolved
validateDocument(document, context, out) ==
  IF ~isContext(context)
  THEN [out |-> Append(out, ContextErrorNotification(context)),
        continue |-> FALSE]
  ELSE [out |-> Append(out, PublishDiagnostics(document,
                              getXMLViewDiagnostics(document, context))),
        continue |-> TRUE]

\* reactOnCdsFileChange resolved: the handler resumes at line 289 and runs
\* validateOpenDocuments up to its first `await getContext(...)`
CdsResolve ==
  /\ wfPc = "awaitCds"
  /\ cdsState = "pending"
  /\ cdsState' = "done"
  /\ found' = findSupported(changes)
  /\ IF ~findSupported(changes)
     THEN /\ wfPc' = "returned"
          /\ UNCHANGED <<allDocuments, vIdx>>
     ELSE /\ allDocuments' = openDocs
          /\ IF Len(openDocs) = 0
             THEN wfPc' = "returned" /\ vIdx' = 0
             ELSE wfPc' = "awaitCtx" /\ vIdx' = 1
  /\ UNCHANGED <<serverVars, changes, rx, cdsFileEvents, callLog, wfOut, req,
                 fqnVars, symVars, pkgVars>>

\* reactOnCdsFileChange rejected: the await at line 288 throws, the handler ends
CdsReject ==
  /\ wfPc = "awaitCds"
  /\ cdsState = "pending"
  /\ cdsState' = "failed"
  /\ wfPc' = "rejected"
  /\ UNCHANGED <<serverVars, changes, rx, cdsFileEvents, callLog, found,
                 allDocuments, vIdx, wfOut, req, fqnVars, symVars, pkgVars>>

\* getContext resolved for allDocuments[vIdx]: lines 251-266, up to the next
\* getContext call or the end of the pass
ValidateGetContextReturn ==
  /\ wfPc = "awaitCtx"
  /\ \E context \in GetContextResults :
       LET r == validateDocument(allDocuments[vIdx], context, wfOut) IN
       /\ wfOut' = r.out
       /\ clientDiagnostics' = deliver(clientDiagnostics, r.out, Len(wfOut) + 1)
       /\ IF r.continue /\ vIdx < Len(allDocuments)
          THEN vIdx' = vIdx + 1 /\ wfPc' = "awaitCtx"
          ELSE vIdx' = vIdx /\ wfPc' = "returned"
  /\ UNCHANGED <<openDocs, manifestStateInitialized, ui5yamlStateInitialized,
                 hasConfigurationCapability, init, settingsDocs, changes, rx,
                 cdsFileEvents, cdsState, callLog, found, allDocuments, req,
                 fqnVars, symVars, pkgVars,
                 setVars>>

(***************************************************************************)
(* Open documents (TextDocuments) and documents.onDidClose (442-452)        *)
(***************************************************************************)
\* documents.get(uri) is defined
isOpen(uri) == \E i \in 1..Len(openDocs) : openDocs[i] = uri

\* settings package: clearDocumentSettings(uri)
clearDocumentSettings(cache, uri) == cache \ {uri}

\* settings package: hasSettingsForDocument(uri)
hasSettingsForDocument(cache, uri) == uri \in cache

\* settings package: setSettingsForDocument(uri, promise)
setSettingsForDocument(cache, uri) == cache \cup {uri}

\* TextDocuments: textDocument/didOpen adds the document
DidOpen ==
  /\ \E uri \in Docs :
       /\ ~isOpen(uri)
       /\ openDocs' = Append(openDocs, uri)
  /\ UNCHANGED <<manifestStateInitialized, ui5yamlStateInitialized,
                 hasConfigurationCapability, init, settingsDocs,
                 clientDiagnostics, watchVars, req, fqnVars, symVars, pkgVars,
                 setVars>>

\* TextDocuments removes the document, then documents.onDidClose runs:
\* sendDiagnostics({uri, diagnostics: []}) for an XML view, and
\* clearDocumentSettings(uri)
DidClose ==
  /\ \E uri \in Docs :
       /\ isOpen(uri)
       /\ openDocs' = SelectSeq(openDocs, LAMBDA d : d # uri)
       /\ clientDiagnostics' =
            IF isXMLView(uri)
            THEN deliver(clientDiagnostics, <<PublishDiagnostics(uri, <<>>)>>, 1)
            ELSE clientDiagnostics
       /\ settingsDocs' = clearDocumentSettings(settingsDocs, uri)
       /\ configurationRequests' = [configurationRequests EXCEPT ![uri] = 0]
  /\ UNCHANGED <<manifestStateInitialized, ui5yamlStateInitialized,
                 hasConfigurationCapability, init, watchVars, req, fqnVars,
                 symVars, pkgVars,
                 globalSettings, configurationSettings,
                 changeSettings, configChanges>>

(***************************************************************************)
(* connection.onInitialize (59-105)                                         *)
(***************************************************************************)
InitIdle == [pc |-> "notStarted", rootUri |-> "null", configuration |-> FALSE]

\* lines 60-66: up to `await initI18n()`
OnInitialize ==
  /\ init.pc = "notStarted"
  /\ \E rootUri \in {"null", "file:///app"} : \E configuration \in BOOLEAN :
       init' = [pc |-> "awaitI18n", rootUri |-> rootUri,
                configuration |-> configuration]
  /\ UNCHANGED <<openDocs, manifestStateInitialized, ui5yamlStateInitialized,
                 hasConfigurationCapability, settingsDocs, clientDiagnostics,
                 watchVars, req, fqnVars, symVars, pkgVars,
                 setVars>>

\* lines 68-104: initializeManifestData and initializeUI5YamlData are started
\* when a workspace root is given
OnInitializeResume ==
  /\ init.pc = "awaitI18n"
  /\ init' = [init EXCEPT !.pc = "returned"]
  /\ IF init.rootUri # "null"
     THEN /\ manifestStateInitialized' = "pending"
          /\ ui5yamlStateInitialized' = "pending"
     ELSE UNCHANGED <<manifestStateInitialized, ui5yamlStateInitialized>>
  /\ hasConfigurationCapability' = init.configuration
  /\ UNCHANGED <<openDocs, settingsDocs, clientDiagnostics, watchVars, req,
                 fqnVars, symVars, pkgVars,
                 setVars>>

\* the promise of initializeManifestData settles
ManifestStateSettle ==
  /\ manifestStateInitialized = "pending"
  /\ manifestStateInitialized' \in {"resolved", "rejected"}
  /\ UNCHANGED <<openDocs, ui5yamlStateInitialized, hasConfigurationCapability,
                 init, settingsDocs, clientDiagnostics, watchVars, req,
                 fqnVars, symVars, pkgVars,
                 setVars>>

\* the promise of initializeUI5YamlData settles
Ui5YamlStateSettle ==
  /\ ui5yamlStateInitialized = "pending"
  /\ ui5yamlStateInitialized' \in {"resolved", "rejected"}
  /\ UNCHANGED <<openDocs, manifestStateInitialized, hasConfigurationCapability,
                 init, settingsDocs, clientDiagnostics, watchVars, req,
                 fqnVars, symVars, pkgVars,
                 setVars>>

(***************************************************************************)
(* Document requests: onCompletion (122-172), onHover (178-224),            *)
(* onDidChangeContent (292-342), onCodeAction (344-383)                     *)
(***************************************************************************)
\* the value a handler computes from the document and the Context
\* (getCompletionItems, getHoverResponse, diagnosticToCodeActionFix)
Response(kind, uri, context) ==
  [method |-> "response",
   params |-> [handler |-> kind, uri |-> uri, context |-> context]]

\* getCDNBaseUrl(framework, version)
getCDNBaseUrl(framework, version) == <<"https://cdn/", framework, version>>

NewRequest(kind, uri, pc) ==
  [kind |-> kind, uri |-> uri, pc |-> pc, context |-> NoContext, out |-> <<>>,
   calls |-> 0]

\* onCompletion, onHover, onCodeAction up to `await getContext(...)`: without
\* the document the handler returns at once
StartRequest(kind) ==
  /\ NoHandlerInFlight
  /\ \E uri \in Docs :
       req' = NewRequest(kind, uri,
                         IF isOpen(uri) THEN "awaitCtx" ELSE "returned")
  /\ UNCHANGED <<serverVars, watchVars, fqnVars, symVars, pkgVars>>

OnCompletion == StartRequest("onCompletion")

OnHover == StartRequest("onHover")

OnCodeAction == StartRequest("onCodeAction")

\* a handler that does not test whether the document is an XML view
OnDidChangeContentAnyDocument ==
  /\ NoHandlerInFlight
  /\ \E uri \in Docs :
       /\ isOpen(uri)
       /\ req' = NewRequest("onDidChangeContent", uri,
                   IF \/ manifestStateInitialized = "undefined"
                      \/ ui5yamlStateInitialized = "undefined"
                   THEN "returned" ELSE "awaitInit")
  /\ UNCHANGED <<serverVars, watchVars, fqnVars, symVars, pkgVars>>

\* onDidChangeContent lines 292-304, up to `await Promise.all([...])`
OnDidChangeContent ==
  /\ NoHandlerInFlight
  /\ \E uri \in Docs :
       /\ isOpen(uri)
       /\ req' = NewRequest("onDidChangeContent", uri,
                   IF \/ manifestStateInitialized = "undefined"
                      \/ ui5yamlStateInitialized = "undefined"
                      \/ ~isXMLView(uri)
                   THEN "returned" ELSE "awaitInit")
  /\ UNCHANGED <<serverVars, watchVars, fqnVars, symVars, pkgVars>>

\* Promise.all resolved: lines 305-312, up to `await getContext(...)`
ChangeContentResume ==
  /\ req.pc = "awaitInit"
  /\ manifestStateInitialized = "resolved"
  /\ ui5yamlStateInitialized = "resolved"
  /\ req' = [req EXCEPT !.pc = IF isOpen(req.uri) THEN "awaitCtx"
                                ELSE "returned"]
  /\ UNCHANGED <<serverVars, watchVars, fqnVars, symVars, pkgVars>>

\* Promise.all rejected: the handler ends at line 304
ChangeContentReject ==
  /\ req.pc = "awaitInit"
  /\ \/ manifestStateInitialized = "rejected"
     \/ ui5yamlStateInitialized = "rejected"
  /\ req' = [req EXCEPT !.pc = "rejected"]
  /\ UNCHANGED <<serverVars, watchVars, fqnVars, symVars, pkgVars>>

\* a handler that returns on a ContextError without reporting it
afterGetContextSilent(r, context) ==
  IF ~isContext(context)
  THEN [r EXCEPT !.context = context, !.pc = "returned"]
  ELSE [r EXCEPT !.context = context, !.pc = "awaitUrl"]

\* lines 138-149 (193-204, 313-324, 358-366): the isContext test and, for a
\* Context, the call of getCDNBaseUrl
afterGetContext(r, context) ==
  IF ~isContext(context)
  THEN [r EXCEPT !.context = context, !.pc = "returned",
                 !.out = Append(@, ContextErrorNotification(context))]
  ELSE [r EXCEPT !.context = context, !.pc = "awaitUrl"]

\* getContext resolved
GetContextReturn ==
  /\ req.pc = "awaitCtx"
  /\ \E context \in GetContextResults : req' = afterGetContext(req, context)
  /\ UNCHANGED <<serverVars, watchVars, fqnVars, symVars, pkgVars>>

\* a handler that sends no ui5Model notification
sendUi5ModelSkipped(out, context, url) == out

\* lines 145-156 (200-211, 320-331, 362-373)
sendUi5Model(out, context, url) ==
  Append(out, Ui5ModelNotification(url, context.yamlDetails.framework,
                context.ui5Model.version, context.ui5Model.isFallback,
                context.ui5Model.isIncorrectVersion))

\* ensureDocumentSettingsUpdated (390-411)
ensureDocumentSettingsUpdated(cache, resource) ==
  IF ~hasConfigurationCapability THEN cache
  ELSE IF ~hasSettingsForDocument(cache, resource)
  THEN setSettingsForDocument(cache, resource)
  ELSE cache

\* a function that asks the client whether or not settings are cached
getConfigurationCallsUncached(cache, resource) ==
  IF ~hasConfigurationCapability THEN 0
  ELSE 1

\* ensureDocumentSettingsUpdated (390-411): the number of
\* connection.workspace.getConfiguration({scopeUri: resource, ...}) calls it makes
getConfigurationCalls(cache, resource) ==
  IF ~hasConfigurationCapability THEN 0
  ELSE IF ~hasSettingsForDocument(cache, resource) THEN 1
  ELSE 0

\* getCDNBaseUrl resolved: the ui5Model notification, then the feature result
\* (onCompletion first awaits getSettingsForDocument)
CdnUrlReturn ==
  /\ req.pc = "awaitUrl"
  /\ LET url == getCDNBaseUrl(req.context.yamlDetails.framework,
                              req.context.ui5Model.version)
         out == sendUi5Model(req.out, req.context, url)
     IN
     IF req.kind = "onCompletion"
     THEN LET calls == getConfigurationCalls(settingsDocs, req.uri) IN
          /\ configurationRequests[req.uri] + calls <= MaxRequests
          /\ configurationRequests' =
               [configurationRequests EXCEPT ![req.uri] = @ + calls]
          /\ settingsDocs' = ensureDocumentSettingsUpdated(settingsDocs, req.uri)
          /\ req' = [req EXCEPT !.out = out, !.pc = "awaitSettings",
                                !.calls = calls]
     ELSE /\ settingsDocs' = settingsDocs
          /\ configurationRequests' = configurationRequests
          /\ req' = [req EXCEPT !.pc = "returned",
                       !.out = Append(out,
                         IF req.kind = "onDidChangeContent"
                         THEN PublishDiagnostics(req.uri,
                                getXMLViewDiagnostics(req.uri, req.context))
                         ELSE Response(req.kind, req.uri, req.context))]
  /\ clientDiagnostics' = deliver(clientDiagnostics, req'.out, Len(req.out) + 1)
  /\ UNCHANGED <<openDocs, manifestStateInitialized, ui5yamlStateInitialized,
                 hasConfigurationCapability, init, watchVars, fqnVars, symVars,
                 pkgVars,
                 globalSettings, configurationSettings,
                 changeSettings, configChanges>>

\* getCDNBaseUrl rejected: the handler ends without a result
CdnUrlReject ==
  /\ req.pc = "awaitUrl"
  /\ req' = [req EXCEPT !.pc = "rejected"]
  /\ UNCHANGED <<serverVars, watchVars, fqnVars, symVars, pkgVars>>

\* getSettingsForDocument resolved: lines 159-168
SettingsReturn ==
  /\ req.pc = "awaitSettings"
  /\ req' = [req EXCEPT !.pc = "returned",
               !.out = Append(@, Response(req.kind, req.uri, req.context))]
  /\ UNCHANGED <<serverVars, watchVars, fqnVars, symVars, pkgVars>>

(***************************************************************************)
(* connection.onDidChangeConfiguration (413-439)                            *)
(***************************************************************************)
\* values of change.settings.UI5LanguageAssistant: a settings object, or
\* undefined when the notification carries no such section
SettingsValues == {"settingsA", "settingsB"}

NoSection == "undefined"

\* settings package: the settings before any were set
DefaultSettings == "defaultSettings"

\* settings package: clearSettings()
clearSettings(cache) == {}

\* lines 415-426: the global settings after the notification
setGlobalSettings(current, section) ==
  IF hasConfigurationCapability THEN current
  ELSE IF section # NoSection THEN section
  ELSE current

\* lines 427-433: the configuration settings after the notification
setConfigurationSettings(current, section) ==
  IF section # NoSection THEN section ELSE current

\* the whole handler; it is synchronous (setLogLevel, line 438, changes the
\* logger only)
OnDidChangeConfiguration ==
  /\ configChanges < MaxConfigChanges
  /\ \E section \in SettingsValues \cup {NoSection} :
       /\ changeSettings' = section
       /\ globalSettings' = setGlobalSettings(globalSettings, section)
       /\ configurationSettings' =
            setConfigurationSettings(configurationSettings, section)
  /\ configChanges' = configChanges + 1
  /\ IF hasConfigurationCapability
     THEN /\ settingsDocs' = clearSettings(settingsDocs)
          /\ configurationRequests' = [d \in Docs |-> 0]
     ELSE UNCHANGED <<settingsDocs, configurationRequests>>
  /\ UNCHANGED <<openDocs, manifestStateInitialized, ui5yamlStateInitialized,
                 hasConfigurationCapability, init, clientDiagnostics,
                 watchVars, req, fqnVars, symVars, pkgVars>>

\* The handler invocation has ended (its promise settled): its frame is
\* dropped, and with it the model's record of what it did. Reactions it left
\* pending are no longer followed.
HandlerEnd ==
  /\ \/ wfPc \in {"returned", "rejected"}
     \/ req.pc \in {"returned", "rejected"}
  /\ changes' = <<>>
  /\ rx' = <<>>
  /\ cdsFileEvents' = <<>>
  /\ cdsState' = "none"
  /\ callLog' = <<>>
  /\ wfPc' = "idle"
  /\ found' = FALSE
  /\ allDocuments' = <<>>
  /\ vIdx' = 0
  /\ wfOut' = <<>>
  /\ req' = ReqIdle
  /\ UNCHANGED <<serverVars, fqnVars, symVars, pkgVars>>

(***************************************************************************)
(* getParentFqn (469-474)                                                   *)
(***************************************************************************)
\* characters of the FQNs and names handed to getParentFqn
Chars == {".", "a", "b"}

Strings == UNION {[1..n -> Chars] : n \in 0..MaxLen}

\* a getParentFqn that tests for the name without the dot before it
getParentFqnNoDot(f, n) ==
  IF ~isEmpty(f) /\ endsWith(f, n)
  THEN substring(f, 0, Len(f) - (Len(n) + 1))
  ELSE None

getParentFqn(f, n) ==
  IF ~isEmpty(f) /\ endsWith(f, <<".">> \o n)
  THEN substring(f, 0, Len(f) - (Len(n) + 1))
  ELSE None

CallGetParentFqn ==
  /\ fqnPc = "call"
  /\ parentFqn' = getParentFqn(fqn, name)
  /\ fqnPc' = "returned"
  /\ UNCHANGED <<serverVars, watchVars, req, fqn, name, symVars, pkgVars>>

(***************************************************************************)
(* Semantic model: newMap (464-467), forEachSymbol (497-517)                *)
(***************************************************************************)
Kinds == <<"classes", "enums", "namespaces", "interfaces", "typedefs",
           "functions">>

\* ---- ECMAScript values: undefined, strings, functions, objects. An object
\* is its prototype and its own properties in creation order.
undefined == [type |-> "undefined"]

JsString(s) == [type |-> "string", value |-> s]

JsFunction(n) == [type |-> "function", name |-> n]

JsObject(proto, own) == [type |-> "object", proto |-> proto, own |-> own]

\* the properties an object inherits from Object.prototype, none enumerable
ObjectPrototypeKeys ==
  {<<"constructor">>, <<"toString">>, <<"hasOwnProperty">>, <<"__proto__">>}

\* Object.prototype.hasOwnProperty.call(obj, key); the strings of the model
\* have no own property among the keys looked up
hasOwnProperty(obj, key) ==
  /\ obj.type = "object"
  /\ \E i \in 1..Len(obj.own) : obj.own[i].key = key

\* key in obj: own or inherited
hasProperty(obj, key) ==
  \/ hasOwnProperty(obj, key)
  \/ /\ obj.type = "object"
     /\ obj.proto = "Object.prototype"
     /\ key \in ObjectPrototypeKeys

\* obj[key]: the own property, else the inherited one, else undefined
get(obj, key) ==
  IF hasOwnProperty(obj, key)
  THEN obj.own[CHOOSE i \in 1..Len(obj.own) : obj.own[i].key = key].value
  ELSE IF hasProperty(obj, key) THEN JsFunction(key)
  ELSE undefined

\* obj[key] = value for a key that is no accessor of the prototype chain
set(obj, key, value) ==
  IF hasOwnProperty(obj, key)
  THEN [obj EXCEPT !.own = [i \in 1..Len(@) |->
                              IF @[i].key = key
                              THEN [key |-> key, value |-> value] ELSE @[i]]]
  ELSE [obj EXCEPT !.own = Append(@, [key |-> key, value |-> value])]

\* for (const key in obj): the own enumerable keys in creation order, then
\* the inherited enumerable ones, of which Object.prototype has none
forInKeys(obj) == [i \in 1..Len(obj.own) |-> obj.own[i].key]

\* the FQNs a catalog may use; the first MaxKeys of them are in use
KeyPool ==
  << <<"a">>, <<"a", ".", "name">>, <<"constructor">>, <<"a", ".", "b">> >>

Keys == {KeyPool[i] : i \in 1..MaxKeys}

\* a collection whose prototype is Object.prototype, as `{}` would be
newMapPlainObject == JsObject("Object.prototype", <<>>)

\* newMap(): Object.create(null), an object without prototype or property
newMap == JsObject("null", <<>>)

\* lodash stringToPath: the segments between the dots
RECURSIVE stringToPath(_)
stringToPath(s) ==
  IF \A i \in 1..Len(s) : s[i] # "." THEN <<s>>
  ELSE LET d == CHOOSE i \in 1..Len(s) :
                  s[i] = "." /\ \A j \in 1..(i - 1) : s[j] # "."
       IN <<SubSeq(s, 1, d - 1)>> \o stringToPath(SubSeq(s, d + 1, Len(s)))

\* lodash isKey(value, object): a name without dot, or a property of object
isKey(value, object) ==
  \/ \A i \in 1..Len(value) : value[i] # "."
  \/ hasProperty(object, value)

\* lodash castPath(value, object)
castPath(value, object) ==
  IF isKey(value, object) THEN <<value>> ELSE stringToPath(value)

\* lodash hasPath(object, path, baseHas): every segment is an own property of
\* the object the segments before it lead to
RECURSIVE hasPath(_, _, _)
hasPath(object, path, index) ==
  IF index > Len(path) THEN TRUE
  ELSE IF ~hasOwnProperty(object, path[index]) THEN FALSE
  ELSE hasPath(get(object, path[index]), path, index + 1)

\* lodash has(object, path)
has(object, path) == hasPath(object, castPath(path, object), 1)

\* the symbol stored for an FQN in the collection of a kind (BaseUI5Node)
Symbol(kind, key) ==
  JsObject("Object.prototype",
           << [key |-> <<"kind">>, value |-> JsString(kind)],
              [key |-> <<"name">>, value |-> JsString(key)] >>)

size(m) ==
  Len(m.classes.own) + Len(m.enums.own) + Len(m.namespaces.own)
  + Len(m.interfaces.own) + Len(m.typedefs.own) + Len(m.functions.own)

\* the traversal lists the collections with enums before classes
typeMapsSwapped(m) ==
  <<m.enums, m.classes, m.namespaces, m.interfaces, m.typedefs, m.functions>>

\* lines 501-508
typeMaps(m) ==
  <<m.classes, m.enums, m.namespaces, m.interfaces, m.typedefs, m.functions>>

\* after an iteratee call: a plain `break` leaves only the inner loop
afterIterateeInnerBreak(keepIterating, pos) ==
  IF keepIterating = "false"
  THEN [pc |-> "loop", mapIdx |-> pos.mapIdx + 1, keyIdx |-> 1]
  ELSE [pc |-> "loop", mapIdx |-> pos.mapIdx, keyIdx |-> pos.keyIdx + 1]

\* after an iteratee call: every falsy value stops the traversal
afterIterateeFalsy(keepIterating, pos) ==
  IF keepIterating \in {"false", "undefined", "0"}
  THEN [pc |-> "done", mapIdx |-> pos.mapIdx, keyIdx |-> pos.keyIdx]
  ELSE [pc |-> "loop", mapIdx |-> pos.mapIdx, keyIdx |-> pos.keyIdx + 1]

\* lines 512-514: `keepIterating === false` leaves both loops
afterIteratee(keepIterating, pos) ==
  IF keepIterating = "false"
  THEN [pc |-> "done", mapIdx |-> pos.mapIdx, keyIdx |-> pos.keyIdx]
  ELSE [pc |-> "loop", mapIdx |-> pos.mapIdx, keyIdx |-> pos.keyIdx + 1]

\* what an iteratee may return: false, true, nothing, a falsy non-boolean
IterateeReturns == {"false", "true", "undefined", "0"}

EmptyModel ==
  [classes |-> newMap, enums |-> newMap, namespaces |-> newMap,
   interfaces |-> newMap, typedefs |-> newMap, functions |-> newMap]

\* the catalog is built: mapElement[key] = symbol on a collection without it
AddSymbol ==
  /\ fesPc = "build"
  /\ size(model) < MaxSymbols
  /\ \E i \in 1..Len(Kinds) : \E key \in Keys :
       /\ ~hasOwnProperty(model[Kinds[i]], key)
       /\ model' = [model EXCEPT ![Kinds[i]] =
                      set(@, key, Symbol(Kinds[i], key))]
  /\ UNCHANGED <<serverVars, watchVars, req, fqnVars, iterRet, mapIdx, keyIdx,
                 visited, fesPc, findVars, pkgVars>>

\* forEachSymbol(model, iteratee) is called
ForEachSymbolCall ==
  /\ fesPc = "build"
  /\ fesPc' = "loop"
  /\ mapIdx' = 1
  /\ keyIdx' = 1
  /\ UNCHANGED <<serverVars, watchVars, req, fqnVars, model, iterRet, visited,
                 findVars, pkgVars>>

\* line 511: the iteratee is called for the next key of the current collection
ForEachSymbolVisit ==
  /\ fesPc = "loop"
  /\ mapIdx <= Len(typeMaps(model))
  /\ keyIdx <= Len(forInKeys(typeMaps(model)[mapIdx]))
  /\ LET mapElement == typeMaps(model)[mapIdx]
         key == forInKeys(mapElement)[keyIdx]
     IN visited' = Append(visited, [v |-> get(mapElement, key), k |-> key])
  /\ \E keepIterating \in IterateeReturns :
       LET next == afterIteratee(keepIterating,
                                 [mapIdx |-> mapIdx, keyIdx |-> keyIdx]) IN
       /\ iterRet' = keepIterating
       /\ fesPc' = next.pc
       /\ mapIdx' = next.mapIdx
       /\ keyIdx' = next.keyIdx
  /\ UNCHANGED <<serverVars, watchVars, req, fqnVars, model, findVars, pkgVars>>

\* line 509-510: the current collection is exhausted
ForEachSymbolNextMap ==
  /\ fesPc = "loop"
  /\ \/ mapIdx > Len(typeMaps(model))
     \/ keyIdx > Len(forInKeys(typeMaps(model)[mapIdx]))
  /\ IF mapIdx >= Len(typeMaps(model))
     THEN fesPc' = "done" /\ UNCHANGED <<mapIdx, keyIdx>>
     ELSE fesPc' = "loop" /\ mapIdx' = mapIdx + 1 /\ keyIdx' = 1
  /\ UNCHANGED <<serverVars, watchVars, req, fqnVars, model, iterRet, visited,
                 findVars, pkgVars>>

(***************************************************************************)
(* findValueInMaps (485-495)                                                *)
(***************************************************************************)
RECURSIVE findValueInMaps(_, _)
findValueInMaps(key, maps) ==
  IF maps = <<>> THEN undefined
  ELSE IF has(Head(maps), key) THEN get(Head(maps), key)
  ELSE findValueInMaps(key, Tail(maps))

\* the keys looked up: the FQNs in use and the names Object.prototype defines
LookupKeys == Keys \cup ObjectPrototypeKeys

\* the argument lists of the lookups: all six collections in the fixed
\* order, one collection, or two collections in either order
MapLists ==
  {Kinds, <<"classes">>, <<"classes", "functions">>, <<"functions", "classes">>}

\* the collections of the catalog that a list of kinds names
MapsOf(m, kinds) == [i \in 1..Len(kinds) |-> m[kinds[i]]]

\* findValueInMaps(key, ...maps) is called on collections of the catalog
FindValueInMapsCall ==
  /\ fesPc = "build"
  /\ \E key \in LookupKeys : \E kinds \in MapLists :
       /\ findKey' = key
       /\ findMaps' = kinds
       /\ findResult' = findValueInMaps(key, MapsOf(model, kinds))
  /\ fesPc' = "found"
  /\ UNCHANGED <<serverVars, watchVars, req, fqnVars, model, iterRet, mapIdx,
                 keyIdx, visited, pkgVars>>

(***************************************************************************)
(* CatalogCache of the context package: (framework, version) -> TypeCatalog *)
(* or in-flight load. Its source is not part of src/; it is modelled from   *)
(* its design (one load per key at a time, failures are not kept).          *)
(***************************************************************************)
\* the VersionedCatalogKeys in use
CatalogKeys == {<<"SAPUI5", <<1, 71, 49>>>>, <<"OpenUI5", <<1, 108, 0>>>>}

\* the TypeCatalog built from the description fetched for a key
TypeCatalog(key) == [catalogOf |-> key]

CatalogAbsent == [state |-> "absent"]

CatalogPending == [state |-> "pending"]

CatalogLoaded(key) == [state |-> "loaded", catalog |-> TypeCatalog(key)]

\* a load that starts a fetch whenever the catalog is not loaded yet
CatalogLoadNoShare ==
  /\ Len(loadReqs) < MaxLoads
  /\ \E key \in CatalogKeys :
       IF catalogCache[key].state = "loaded"
       THEN /\ loadReqs' = Append(loadReqs, [key |-> key, state |-> "resolved",
                                              result |-> catalogCache[key]])
            /\ UNCHANGED <<catalogCache, inFlight, fetchCount>>
       ELSE /\ loadReqs' = Append(loadReqs, [key |-> key, state |-> "waiting",
                                              result |-> CatalogPending])
            /\ catalogCache' = [catalogCache EXCEPT ![key] = CatalogPending]
            /\ inFlight' = [inFlight EXCEPT ![key] = @ + 1]
            /\ fetchCount' = [fetchCount EXCEPT ![key] = @ + 1]
  /\ UNCHANGED <<serverVars, watchVars, req, fqnVars, symVars, ctxVars, verVars>>

\* load(key): a hit returns the catalog, a pending load is shared, a miss
\* starts the fetch and caches the in-flight load
CatalogLoad ==
  /\ Len(loadReqs) < MaxLoads
  /\ \E key \in CatalogKeys :
       CASE catalogCache[key].state = "loaded" ->
              /\ loadReqs' = Append(loadReqs, [key |-> key, state |-> "resolved",
                                               result |-> catalogCache[key]])
              /\ UNCHANGED <<catalogCache, inFlight, fetchCount>>
         [] catalogCache[key].state = "pending" ->
              /\ loadReqs' = Append(loadReqs, [key |-> key, state |-> "waiting",
                                               result |-> CatalogPending])
              /\ UNCHANGED <<catalogCache, inFlight, fetchCount>>
         [] catalogCache[key].state = "absent" ->
              /\ loadReqs' = Append(loadReqs, [key |-> key, state |-> "waiting",
                                               result |-> CatalogPending])
              /\ catalogCache' = [catalogCache EXCEPT ![key] = CatalogPending]
              /\ inFlight' = [inFlight EXCEPT ![key] = @ + 1]
              /\ fetchCount' = [fetchCount EXCEPT ![key] = @ + 1]
  /\ UNCHANGED <<serverVars, watchVars, req, fqnVars, symVars, ctxVars, verVars>>

\* the requests waiting for key are settled with a result
settle(reqs, key, state, result) ==
  [i \in 1..Len(reqs) |->
     IF reqs[i].key = key /\ reqs[i].state = "waiting"
     THEN [key |-> key, state |-> state, result |-> result]
     ELSE reqs[i]]

\* the fetch for a key succeeds: the catalog replaces the in-flight load
CatalogFetchSucceed ==
  /\ \E key \in CatalogKeys :
       /\ inFlight[key] > 0
       /\ inFlight' = [inFlight EXCEPT ![key] = @ - 1]
       /\ catalogCache' = [catalogCache EXCEPT ![key] = CatalogLoaded(key)]
       /\ loadReqs' = settle(loadReqs, key, "resolved", CatalogLoaded(key))
  /\ UNCHANGED <<serverVars, watchVars, req, fqnVars, symVars, fetchCount,
                 ctxVars, verVars>>

\* a failed fetch whose failure stays in the cache
CatalogFetchFailKept ==
  /\ \E key \in CatalogKeys :
       /\ inFlight[key] > 0
       /\ inFlight' = [inFlight EXCEPT ![key] = @ - 1]
       /\ catalogCache' = [catalogCache EXCEPT ![key] =
                             [state |-> "loaded",
                              catalog |-> [error |-> "CatalogLoadError"]]]
       /\ loadReqs' = settle(loadReqs, key, "failed", CatalogAbsent)
  /\ UNCHANGED <<serverVars, watchVars, req, fqnVars, symVars, fetchCount,
                 ctxVars, verVars>>

\* the fetch for a key fails: the in-flight load is dropped from the cache
CatalogFetchFail ==
  /\ \E key \in CatalogKeys :
       /\ inFlight[key] > 0
       /\ inFlight' = [inFlight EXCEPT ![key] = @ - 1]
       /\ catalogCache' = [catalogCache EXCEPT ![key] = CatalogAbsent]
       /\ loadReqs' = settle(loadReqs, key, "failed", CatalogAbsent)
  /\ UNCHANGED <<serverVars, watchVars, req, fqnVars, symVars, fetchCount,
                 ctxVars, verVars>>

CacheIdle ==
  /\ catalogCache = [key \in CatalogKeys |-> CatalogAbsent]
  /\ inFlight = [key \in CatalogKeys |-> 0]
  /\ fetchCount = [key \in CatalogKeys |-> 0]
  /\ loadReqs = <<>>

(***************************************************************************)
(* Context cache of the ContextBuilder (context package), keyed by project  *)
(* root. Modelled from its design: a recomputation records a generation     *)
(* marker when it starts and replaces the entry only if the entry is older. *)
(***************************************************************************)
ProjectRoots == {"/app", "/lib"}

\* the Context a recomputation yields: a snapshot of the configuration read
\* when it started
ContextOf(root, marker) == [root |-> root, marker |-> marker]

NoEntry == [marker |-> 0, context |-> NoContext]

\* a recomputation starts for a project: invalidation, or a getContext miss
RecomputeStart ==
  /\ \E root \in ProjectRoots :
       /\ generation[root] < MaxRecomputations
       /\ generation' = [generation EXCEPT ![root] = @ + 1]
       /\ recomputing' = [recomputing EXCEPT ![root] = @ \cup {generation[root] + 1}]
  /\ UNCHANGED <<serverVars, watchVars, req, fqnVars, symVars, cacheVars,
                 contextCache, completed, verVars>>

\* a completion that always writes its result
replaceEntryUnguarded(entry, root, marker) ==
  [marker |-> marker, context |-> ContextOf(root, marker)]

\* the write at completion: skipped when the entry was written by a newer
\* recomputation
replaceEntry(entry, root, marker) ==
  IF entry.marker > marker THEN entry
  ELSE [marker |-> marker, context |-> ContextOf(root, marker)]

\* a recomputation completes
RecomputeComplete ==
  /\ \E root \in ProjectRoots : \E marker \in recomputing[root] :
       /\ recomputing' = [recomputing EXCEPT ![root] = @ \ {marker}]
       /\ completed' = [completed EXCEPT ![root] = Append(@, marker)]
       /\ contextCache' = [contextCache EXCEPT ![root] =
                             replaceEntry(@, root, marker)]
  /\ UNCHANGED <<serverVars, watchVars, req, fqnVars, symVars, cacheVars,
                 generation, verVars>>

CtxIdle ==
  /\ contextCache = [root \in ProjectRoots |-> NoEntry]
  /\ generation = [root \in ProjectRoots |-> 0]
  /\ recomputing = [root \in ProjectRoots |-> {}]
  /\ completed = [root \in ProjectRoots |-> <<>>]

(***************************************************************************)
(* VersionResolver of the context package, modelled from its design and     *)
(* from the change log entry of 4.0.16. A version is <<major, minor, patch>>*)
(***************************************************************************)
\* change log 4.0.16: the fallback version
FallbackVersion == <<1, 71, 49>>

\* change log 4.0.16: the highest version that is not supported
HighestUnsupported == <<1, 38>>

\* a minimum threshold that leaves out the threshold version itself
isBelowMinimumExclusive(v) ==
  \/ v[1] < HighestUnsupported[1]
  \/ v[1] = HighestUnsupported[1] /\ v[2] < HighestUnsupported[2]

\* change log 4.0.16: "UI5 versions 1.38 and below"
isBelowMinimum(v) ==
  \/ v[1] < HighestUnsupported[1]
  \/ v[1] = HighestUnsupported[1] /\ v[2] <= HighestUnsupported[2]

\* the versions published for the framework, and the latest of them
PublishedVersions == {<<1, 71, 1>>, FallbackVersion, <<1, 108, 0>>}

LatestVersion == <<1, 108, 0>>

\* a declaration of the project: none, a malformed string, or a version
NoVersion == [kind |-> "absent"]

MalformedVersion == [kind |-> "malformed", raw |-> "not-a-version"]

DeclaredVersion(v) == [kind |-> "version", version |-> v]

Declarations ==
  {NoVersion, MalformedVersion}
  \cup {DeclaredVersion(<<major, minor, patch>>) :
          major \in {0, 1, 2}, minor \in {0, 37, 38, 39, 71, 108},
          patch \in 0..MaxPatch}

Resolution(version, isFallback, isIncorrectVersion) ==
  [version |-> version, isFallback |-> isFallback,
   isIncorrectVersion |-> isIncorrectVersion]

Unresolved == [version |-> <<>>, isFallback |-> FALSE,
               isIncorrectVersion |-> FALSE]

\* the policy: a malformed or unsupported declaration falls back; without a
\* declaration, or with an unpublished one, the latest version is taken when
\* the network is available and the fallback otherwise; a published version
\* is used as declared
resolveVersion(d, isOnline) ==
  CASE d.kind = "malformed" -> Resolution(FallbackVersion, TRUE, TRUE)
    [] d.kind = "absent" ->
         IF isOnline THEN Resolution(LatestVersion, FALSE, FALSE)
         ELSE Resolution(FallbackVersion, TRUE, FALSE)
    [] d.kind = "version" ->
         IF isBelowMinimum(d.version)
         THEN Resolution(FallbackVersion, TRUE, TRUE)
         ELSE IF d.version \in PublishedVersions
         THEN Resolution(d.version, FALSE, FALSE)
         ELSE IF isOnline THEN Resolution(LatestVersion, FALSE, FALSE)
         ELSE Resolution(FallbackVersion, TRUE, FALSE)

\* the version of a project is resolved
ResolveVersion ==
  /\ verPc = "call"
  /\ resolved' = resolveVersion(declared, online)
  /\ verPc' = "returned"
  /\ UNCHANGED <<serverVars, watchVars, req, fqnVars, symVars, cacheVars,
                 ctxVars, declared, online>>

VerIdle ==
  /\ declared = NoVersion
  /\ online = FALSE
  /\ resolved = Unresolved
  /\ verPc = "idle"

PkgIdle == CacheIdle /\ CtxIdle /\ VerIdle

(***************************************************************************)
(* Specifications                                                           *)
(***************************************************************************)
\* sequences of distinct documents
OpenDocLists ==
  {ds \in UNION {[1..n -> Docs] : n \in 0..Cardinality(Docs)} :
     \A i, j \in 1..Len(ds) : i # j => ds[i] # ds[j]}

WatchInit ==
  /\ changes = <<>>
  /\ rx = <<>>
  /\ cdsFileEvents = <<>>
  /\ cdsState = "none"
  /\ callLog = <<>>
  /\ wfPc = "idle"
  /\ found = FALSE
  /\ allDocuments = <<>>
  /\ vIdx = 0
  /\ wfOut = <<>>

\* settings package and configuration notifications: nothing set, none sent
SettingsInit ==
  /\ configurationRequests = [d \in Docs |-> 0]
  /\ globalSettings = DefaultSettings
  /\ configurationSettings = DefaultSettings
  /\ changeSettings = NoSection
  /\ configChanges = 0

\* the server as constructed (52-57)
ServerInit ==
  /\ openDocs = <<>>
  /\ manifestStateInitialized = "undefined"
  /\ ui5yamlStateInitialized = "undefined"
  /\ hasConfigurationCapability = FALSE
  /\ init = InitIdle
  /\ settingsDocs = {}
  /\ clientDiagnostics = [d \in Docs |-> <<>>]
  /\ SettingsInit

\* the server after onInitialize for a workspace root, its two initial scans
\* completed, with any set of documents open
ServerInitialized ==
  /\ openDocs \in OpenDocLists
  /\ manifestStateInitialized = "resolved"
  /\ ui5yamlStateInitialized = "resolved"
  /\ hasConfigurationCapability = FALSE
  /\ init = [pc |-> "returned", rootUri |-> "file:///app",
             configuration |-> FALSE]
  /\ settingsDocs = {}
  /\ clientDiagnostics = [d \in Docs |-> <<>>]
  /\ SettingsInit

FqnIdle ==
  /\ fqn = <<>>
  /\ name = <<>>
  /\ parentFqn = None
  /\ fqnPc = "idle"

FindIdle ==
  /\ findKey = <<>>
  /\ findMaps = <<>>
  /\ findResult = undefined

SymIdle ==
  /\ model = EmptyModel
  /\ iterRet = "undefined"
  /\ mapIdx = 0
  /\ keyIdx = 0
  /\ visited = <<>>
  /\ fesPc = "idle"
  /\ FindIdle

\* ---- Spec: one watched-files notification after the other
Init ==
  /\ ServerInitialized /\ WatchInit /\ req = ReqIdle /\ FqnIdle /\ SymIdle
  /\ PkgIdle

WatchedFiles == OnDidChangeWatchedFiles(Uris, MaxChanges)

Next ==
  \/ WatchedFiles
  \/ ReactionResolve
  \/ ReactionReject
  \/ CdsResolve
  \/ CdsReject
  \/ ValidateGetContextReturn
  \/ HandlerEnd

Spec == Init /\ [][Next]_vars

\* the server after onInitialize returned and its initial scans settled: for
\* a client with or without the configuration capability, without a workspace
\* root (the two promises never created) or with one (each scan resolved or
\* rejected), no document open yet
ServerRunning ==
  /\ openDocs = <<>>
  /\ init \in {i \in [pc : {"returned"}, rootUri : {"null", "file:///app"},
                       configuration : BOOLEAN] : TRUE}
  /\ hasConfigurationCapability = init.configuration
  /\ IF init.rootUri = "null"
     THEN /\ manifestStateInitialized = "undefined"
          /\ ui5yamlStateInitialized = "undefined"
     ELSE /\ manifestStateInitialized \in {"resolved", "rejected"}
          /\ ui5yamlStateInitialized \in {"resolved", "rejected"}
  /\ settingsDocs = {}
  /\ clientDiagnostics = [d \in Docs |-> <<>>]
  /\ SettingsInit

\* ---- SpecDoc: the initialized server, all handlers for documents and files
InitDoc ==
  /\ ServerRunning /\ WatchInit /\ req = ReqIdle /\ FqnIdle /\ SymIdle
  /\ PkgIdle

\* one path of each kind: configuration file, .cds file, XML view, other
DocBurstUris == {UManifest, UCdsA, UView, UOther}

WatchedFilesDoc == OnDidChangeWatchedFiles(DocBurstUris, MaxBurstDoc)

NextDoc ==
  \/ DidOpen
  \/ DidClose
  \/ OnCompletion
  \/ OnHover
  \/ OnCodeAction
  \/ OnDidChangeContent
  \/ ChangeContentResume
  \/ ChangeContentReject
  \/ GetContextReturn
  \/ CdnUrlReturn
  \/ CdnUrlReject
  \/ SettingsReturn
  \/ WatchedFilesDoc
  \/ ReactionResolve
  \/ ReactionReject
  \/ CdsResolve
  \/ CdsReject
  \/ ValidateGetContextReturn
  \/ HandlerEnd

SpecDoc == InitDoc /\ [][NextDoc]_vars

\* ---- SpecStart: the server from its construction on: onInitialize, its two
\* initial scans, documents opened, changed and closed
InitStart ==
  /\ ServerInit /\ WatchInit /\ req = ReqIdle /\ FqnIdle /\ SymIdle /\ PkgIdle

NextStart ==
  \/ OnInitialize
  \/ OnInitializeResume
  \/ ManifestStateSettle
  \/ Ui5YamlStateSettle
  \/ DidOpen
  \/ DidClose
  \/ OnDidChangeContent
  \/ ChangeContentResume
  \/ ChangeContentReject
  \/ GetContextReturn
  \/ CdnUrlReturn
  \/ CdnUrlReject
  \/ HandlerEnd

SpecStart == InitStart /\ [][NextStart]_vars

\* ---- SpecSettings: the initialized server, completion requests for
\* documents that are opened and closed, and configuration changes
NextSettings ==
  \/ DidOpen
  \/ DidClose
  \/ OnCompletion
  \/ GetContextReturn
  \/ CdnUrlReturn
  \/ CdnUrlReject
  \/ SettingsReturn
  \/ OnDidChangeConfiguration
  \/ HandlerEnd

SpecSettings == InitDoc /\ [][NextSettings]_vars

\* ---- SpecFqn: getParentFqn applied to every pair of bounded strings
InitFqn ==
  /\ ServerInit /\ WatchInit /\ req = ReqIdle /\ SymIdle /\ PkgIdle
  /\ fqn \in Strings
  /\ name \in Strings
  /\ parentFqn = None
  /\ fqnPc = "call"

NextFqn == CallGetParentFqn

SpecFqn == InitFqn /\ [][NextFqn]_vars

\* ---- SpecSym: a catalog is built, then traversed or looked up in
InitSym ==
  /\ ServerInit /\ WatchInit /\ req = ReqIdle /\ FqnIdle /\ PkgIdle
  /\ model = EmptyModel
  /\ iterRet = "undefined"
  /\ mapIdx = 0
  /\ keyIdx = 0
  /\ visited = <<>>
  /\ fesPc = "build"
  /\ FindIdle

NextSym ==
  \/ AddSymbol
  \/ ForEachSymbolCall
  \/ ForEachSymbolVisit
  \/ ForEachSymbolNextMap
  \/ FindValueInMapsCall

SpecSym == InitSym /\ [][NextSym]_vars

\* ---- SpecCache: load requests to the CatalogCache and their fetches
InitCache ==
  /\ ServerInit /\ WatchInit /\ req = ReqIdle /\ FqnIdle /\ SymIdle
  /\ CacheIdle /\ CtxIdle /\ VerIdle

NextCache ==
  \/ CatalogLoad
  \/ CatalogFetchSucceed
  \/ CatalogFetchFail

SpecCache == InitCache /\ [][NextCache]_vars

\* ---- SpecCtx: recomputations of the cached Context of each project
InitCtx ==
  /\ ServerInit /\ WatchInit /\ req = ReqIdle /\ FqnIdle /\ SymIdle
  /\ CacheIdle /\ CtxIdle /\ VerIdle

NextCtx ==
  \/ RecomputeStart
  \/ RecomputeComplete

SpecCtx == InitCtx /\ [][NextCtx]_vars

\* ---- SpecVer: the version of every declaration is resolved, on and offline
InitVer ==
  /\ ServerInit /\ WatchInit /\ req = ReqIdle /\ FqnIdle /\ SymIdle
  /\ CacheIdle /\ CtxIdle
  /\ declared \in Declarations
  /\ online \in BOOLEAN
  /\ resolved = Unresolved
  /\ verPc = "call"

NextVer == ResolveVersion

SpecVer == InitVer /\ [][NextVer]_vars

(***************************************************************************)
(* Claims about onDidChangeWatchedFiles and validateOpenDocuments           *)
(***************************************************************************)
IsCds(uri) == endsWith(uri, <<".cds">>)

\* the path ends in one of the five recognized suffixes
IsRecognized(uri) ==
  \/ endsWith(uri, <<"manifest.json">>)
  \/ endsWith(uri, <<"ui5.yaml">>)
  \/ endsWith(uri, <<".cds">>)
  \/ endsWith(uri, <<".xml">>)
  \/ endsWith(uri, <<"package.json">>)

\* the path is a configuration file: manifest, YAML or package metadata
IsConfigFile(uri) ==
  \/ endsWith(uri, <<"manifest.json">>)
  \/ endsWith(uri, <<"ui5.yaml">>)
  \/ endsWith(uri, <<"package.json">>)

\* the revalidation pass got past its `found` test (line 244)
PassRan == found

\* C1: within one notification, no per-file reaction of the burst is still
\* running when validateOpenDocuments has called getContext.
C1_ReactionsCompleteBeforeRevalidation ==
  wfPc = "awaitCtx" => \A i \in DOMAIN rx : rx[i] # "pending"

\* C2: the .cds changes of a notification are handed to reactOnCdsFileChange
\* in one call, made after every change was dispatched, carrying every .cds
\* change in listed order; revalidation begins only after that call completed.
C2_CdsBatchedOnce ==
  wfPc # "idle" =>
    /\ Cardinality({k \in 1..Len(callLog) :
                      callLog[k].fn = "reactOnCdsFileChange"}) = 1
    /\ callLog[Len(callLog)].fn = "reactOnCdsFileChange"
    /\ \A i \in 1..Len(changes) :
         /\ rx[i] # "unvisited"
         /\ IsCds(changes[i]) => rx[i] = "batched"
    /\ cdsFileEvents = SelectSeq(changes, IsCds)
    /\ (PassRan \/ wfPc = "awaitCtx" \/ Len(wfOut) > 0) => cdsState = "done"

\* C2 witness: a burst with two different .cds changes, revalidation begun
C2_Witness ==
  /\ wfPc = "awaitCtx"
  /\ Len(cdsFileEvents) = 2
  /\ cdsFileEvents[1] # cdsFileEvents[2]
  /\ cdsState = "done"

\* C3: for two configuration-file changes i < j of one notification, the
\* reaction for i never applies its cache effect after the reaction for j did.
C3_ConfigReactionsAppliedInOrder ==
  [][\A i, j \in DOMAIN rx :
       (/\ i < j
        /\ IsConfigFile(changes[i])
        /\ IsConfigFile(changes[j])
        /\ rx[i] = "pending"
        /\ rx[j] = "done")
       => ~(i \in DOMAIN rx' /\ rx'[i] = "done")]_vars

\* C4: whatever reactions failed, every change of the notification was
\* dispatched, every change that selects a reaction had it started, and the
\* batched reaction for the .cds changes was started too.
C4_FailureDoesNotStopLaterReactions ==
  wfPc # "idle" =>
    /\ cdsState # "none"
    /\ \A j \in 1..Len(changes) :
         /\ rx[j] # "unvisited"
         /\ (IsConfigFile(changes[j]) \/ endsWith(changes[j], <<".xml">>))
            => /\ rx[j] \in {"pending", "done", "failed"}
               /\ \E k \in 1..Len(callLog) : callLog[k].idx = j

\* C4 witness: a reaction failed and the reaction for a later-listed file ran
\* to completion
C4_Witness ==
  \E i, j \in DOMAIN rx : i < j /\ rx[i] = "failed" /\ rx[j] = "done"

\* C5 (as stated): once the handler has ended, the revalidation pass has run
\* exactly when the notification held a recognized change.
C5_RevalidationAfterAnyRecognizedChange ==
  wfPc \in {"returned", "rejected"} =>
    (PassRan <=> \E i \in 1..Len(changes) : IsRecognized(changes[i]))

\* C5 (amended): once the handler has ended, the revalidation pass has run
\* exactly when reactOnCdsFileChange completed without failure and the
\* notification held a recognized change that is not an XML view; failed
\* per-file reactions do not matter.
C5_RevalidationAfterNonViewChange ==
  /\ wfPc = "awaitCtx" => PassRan
  /\ wfPc \in {"returned", "rejected"} =>
       (PassRan <=>
          /\ cdsState = "done"
          /\ \E i \in 1..Len(changes) :
               IsRecognized(changes[i]) /\ ~isXMLView(changes[i]))

\* C5 witness: the pass ran over an open document although the reaction for
\* the recognized change failed
C5_Witness ==
  /\ wfPc = "returned"
  /\ PassRan
  /\ Len(wfOut) > 0
  /\ \E i \in DOMAIN rx : rx[i] = "failed"

(***************************************************************************)
(* Claims about the handlers that call getContext                           *)
(***************************************************************************)
IsContextError(m) == m.method = "UI5LanguageAssistant/context-error"

IsUi5Model(m) == m.method = "UI5LanguageAssistant/ui5Model"

IsDiagnostics(m) == m.method = "textDocument/publishDiagnostics"

IsResponse(m) == m.method = "response"

\* the Context a feature result or a diagnostics message was computed from
SourceOf(m) ==
  IF IsDiagnostics(m) THEN m.params.diagnostics[1].context
  ELSE m.params.context

\* the ui5Model notification that carries the fields of a Context
Ui5ModelOf(c) ==
  [method |-> "UI5LanguageAssistant/ui5Model",
   params |-> [url |-> <<"https://cdn/", c.yamlDetails.framework,
                         c.ui5Model.version>>,
               framework |-> c.yamlDetails.framework,
               version |-> c.ui5Model.version,
               isFallback |-> c.ui5Model.isFallback,
               isIncorrectVersion |-> c.ui5Model.isIncorrectVersion]]

\* C6: a handler whose getContext returned a ContextError sends the
\* context-error notification and nothing else: no ui5Model notification, no
\* feature result, no diagnostics; the revalidation pass ends with it.
C6_ContextErrorStopsRequest ==
  /\ req.context = ContextError =>
       /\ req.pc = "returned"
       /\ req.out = <<[method |-> "UI5LanguageAssistant/context-error",
                       params |-> ContextError]>>
  /\ \A k \in 1..Len(req.out) :
       /\ IsContextError(req.out[k]) => req.context = ContextError
       /\ (IsDiagnostics(req.out[k]) \/ IsResponse(req.out[k]))
            => isContext(SourceOf(req.out[k]))
  /\ \A k \in 1..Len(wfOut) :
       /\ IsContextError(wfOut[k]) =>
            /\ k = Len(wfOut)
            /\ wfPc = "returned"
            /\ wfOut[k].params = ContextError
       /\ ~IsUi5Model(wfOut[k])
       /\ IsDiagnostics(wfOut[k]) => isContext(SourceOf(wfOut[k]))
  /\ (wfPc = "returned" /\ PassRan /\ Len(wfOut) < Len(allDocuments))
       => /\ Len(wfOut) > 0
          /\ IsContextError(wfOut[Len(wfOut)])

\* C6 witness: a content-change handler ended on a ContextError
C6_Witness ==
  /\ req.kind = "onDidChangeContent"
  /\ req.pc = "returned"
  /\ req.context = ContextError

\* the handler's feature result, or its diagnostics, precede which messages
RequestResultOk ==
  /\ req.pc = "awaitSettings" => req.out = <<Ui5ModelOf(req.context)>>
  /\ (req.pc = "returned" /\ isContext(req.context)) =>
       /\ Len(req.out) = 2
       /\ req.out[1] = Ui5ModelOf(req.context)
       /\ IF req.kind = "onDidChangeContent"
          THEN IsDiagnostics(req.out[2]) ELSE IsResponse(req.out[2])
       /\ SourceOf(req.out[2]) = req.context
       /\ req.out[2].params.uri = req.uri
  /\ \A k \in 1..Len(req.out) :
       (IsDiagnostics(req.out[k]) \/ IsResponse(req.out[k])) =>
         /\ k = 2
         /\ req.out[1] = Ui5ModelOf(SourceOf(req.out[k]))

\* C7 (as stated): every result a handler derives from a Context, the
\* diagnostics of the revalidation pass included, comes right after one
\* ui5Model notification carrying that Context's fields.
C7_Ui5ModelBeforeEveryResult ==
  /\ RequestResultOk
  /\ \A k \in 1..Len(wfOut) :
       IsDiagnostics(wfOut[k]) =>
         /\ k > 1
         /\ wfOut[k - 1] = Ui5ModelOf(SourceOf(wfOut[k]))

\* C7 (amended): completion, hover, content change and code action emit
\* their result only after exactly one ui5Model notification carrying the
\* fields of the Context that getContext returned to them; the revalidation
\* pass sends no ui5Model notification.
C7_Ui5ModelBeforeRequestResult ==
  /\ RequestResultOk
  /\ \A k \in 1..Len(wfOut) : ~IsUi5Model(wfOut[k])

\* C7 witness: a hover request returned its result for a Context
C7_Witness ==
  /\ req.kind = "onHover"
  /\ req.pc = "returned"
  /\ isContext(req.context)
  /\ Len(req.out) = 2

(***************************************************************************)
(* Claims about getParentFqn and forEachSymbol                              *)
(***************************************************************************)
\* C8: getParentFqn(f, n) is the p with f = p + "." + n when there is one
\* (then its length is that of f less that of n less one), and none otherwise.
C8_ParentFqn ==
  fqnPc = "returned" =>
    LET prefixes == {p \in {SubSeq(fqn, 1, k) : k \in 0..Len(fqn)} :
                       fqn = p \o <<".">> \o name}
    IN IF prefixes # {}
       THEN /\ parentFqn \in prefixes
            /\ Len(parentFqn) = Len(fqn) - Len(name) - 1
            /\ Len(fqn) > 0
       ELSE parentFqn = None

\* C8 witness: a parent was derived for a name that itself contains a dot
C8_Witness ==
  /\ fqnPc = "returned"
  /\ parentFqn # None
  /\ Len(parentFqn) > 0
  /\ \E k \in 1..Len(name) : name[k] = "."

\* the entries of the collections from the i-th on, collection by collection
RECURSIVE EntriesFrom(_)
EntriesFrom(i) ==
  IF i > Len(Kinds) THEN <<>>
  ELSE LET coll == model[Kinds[i]].own IN
       [j \in 1..Len(coll) |->
          [v |-> Symbol(Kinds[i], coll[j].key), k |-> coll[j].key]]
       \o EntriesFrom(i + 1)

\* C9: a traversal whose visitor never returned false has called it once for
\* every entry, classes first, then enums, namespaces, interfaces, typedefs,
\* functions, each time with the entry's symbol and FQN.
C9_VisitsEveryEntryInOrder ==
  (fesPc = "done" /\ iterRet # "false") => visited = EntriesFrom(1)

\* C9 witness: a finished traversal over three entries of at least two
\* collections, one of them holding two
C9_Witness ==
  /\ fesPc = "done"
  /\ iterRet # "false"
  /\ Len(visited) = 3
  /\ \E a, b \in 1..Len(visited) :
       get(visited[a].v, <<"kind">>) # get(visited[b].v, <<"kind">>)
  /\ \E a, b \in 1..Len(visited) :
       a # b /\ get(visited[a].v, <<"kind">>) = get(visited[b].v, <<"kind">>)

\* C10: once the visitor has returned false no further call is made; the
\* calls made so far are the first entries in traversal order; after any
\* other return value the traversal goes on while entries remain.
C10_StopsOnFalseOnly ==
  /\ [](visited = SubSeq(EntriesFrom(1), 1, Len(visited)))
  /\ [](iterRet = "false" => fesPc = "done")
  /\ []((fesPc = "done" /\ Len(visited) < Len(EntriesFrom(1)))
          => iterRet = "false")
  /\ [][iterRet = "false" => visited' = visited]_vars

\* C10 witness: the visitor returned false with an entry left in the current
\* collection and one in a later collection
C10_Witness ==
  /\ iterRet = "false"
  /\ fesPc = "done"
  /\ keyIdx < Len(forInKeys(typeMaps(model)[mapIdx]))
  /\ \E m \in (mapIdx + 1)..Len(Kinds) : Len(forInKeys(typeMaps(model)[m])) > 0

(***************************************************************************)
(* Claims about findValueInMaps and newMap                                  *)
(***************************************************************************)
\* the symbol a collection holds under an FQN as its own entry
OwnEntry(coll, key) ==
  coll.own[CHOOSE i \in 1..Len(coll.own) : coll.own[i].key = key].value

\* the value under key in the first of the collections that holds key as its
\* own entry, none when no collection does
FirstMatch(key, maps) ==
  IF \E i \in 1..Len(maps) : hasOwnProperty(maps[i], key)
  THEN LET f == CHOOSE i \in 1..Len(maps) :
                  /\ hasOwnProperty(maps[i], key)
                  /\ \A j \in 1..(i - 1) : ~hasOwnProperty(maps[j], key)
       IN OwnEntry(maps[f], key)
  ELSE undefined

\* C11: findValueInMaps returns the value under key in the first map, in
\* argument order, that holds key as its own entry, and none when no map
\* holds it; over all six collections in the fixed order that is the
\* catalog-wide lookup of the FQN, first match wins.
C11_FindValueInMapsFirstMatch ==
  fesPc = "found" =>
    /\ findResult = FirstMatch(findKey, MapsOf(model, findMaps))
    /\ findMaps = Kinds =>
         findResult = FirstMatch(findKey, MapsOf(model, Kinds))

\* a key never inserted into any collection of the catalog
NeverInserted(key) ==
  \A i \in 1..Len(Kinds) : ~hasOwnProperty(model[Kinds[i]], key)

\* C12: a collection made by newMap has no member but the inserted ones:
\* reading a key never inserted into it yields none, findValueInMaps yields
\* none for a key never inserted into the catalog, the names Object.prototype
\* defines included, and forEachSymbol visits inserted entries only.
C12_NoInheritedMembers ==
  /\ \A i \in 1..Len(Kinds) : \A key \in LookupKeys :
       ~hasOwnProperty(model[Kinds[i]], key)
         => /\ get(model[Kinds[i]], key) = undefined
            /\ ~hasProperty(model[Kinds[i]], key)
  /\ (fesPc = "found" /\ NeverInserted(findKey)) => findResult = undefined
  /\ \A k \in 1..Len(visited) :
       \E i \in 1..Len(Kinds) :
         /\ hasOwnProperty(model[Kinds[i]], visited[k].k)
         /\ visited[k].v = OwnEntry(model[Kinds[i]], visited[k].k)

\* C12 witness: a catalog of two entries was looked up, over all six
\* collections, for the name constructor, which was never inserted
C12_Witness ==
  /\ fesPc = "found"
  /\ findKey = <<"constructor">>
  /\ findMaps = Kinds
  /\ NeverInserted(findKey)
  /\ size(model) >= 2
  /\ findResult = undefined

(***************************************************************************)
(* Claims about the catalog cache, the context cache and version resolution *)
(***************************************************************************)
\* C13: at no time is more than one fetch in flight for a key, a load is
\* pending exactly while its fetch is, and a request that arrives while the
\* key is pending starts no fetch; loads of different keys run side by side.
C13_OneFetchPerKey ==
  /\ [](\A key \in CatalogKeys :
          /\ inFlight[key] <= 1
          /\ catalogCache[key].state = "pending" <=> inFlight[key] = 1)
  /\ [][\A key \in CatalogKeys :
          (catalogCache[key].state = "pending"
           /\ Len(loadReqs') > Len(loadReqs)
           /\ loadReqs'[Len(loadReqs')].key = key)
          => /\ fetchCount'[key] = fetchCount[key]
             /\ loadReqs'[Len(loadReqs')].state = "waiting"]_vars

\* C13 witness: two requests share the pending load of one key, for which one
\* fetch was started, while a load of the other key is in flight too
C13_Witness ==
  \E k1, k2 \in CatalogKeys :
    /\ k1 # k2
    /\ inFlight[k1] = 1 /\ inFlight[k2] = 1
    /\ fetchCount[k1] = 1
    /\ Cardinality({i \in 1..Len(loadReqs) :
                      loadReqs[i].key = k1 /\ loadReqs[i].state = "waiting"}) = 2

\* the greatest marker of a sequence of markers, 0 for the empty sequence
MaxMarker(ms) ==
  IF ms = <<>> THEN 0
  ELSE ms[CHOOSE i \in 1..Len(ms) : \A j \in 1..Len(ms) : ms[j] <= ms[i]]

\* C14: the cached Context of a project is the result of the most recently
\* started recomputation among those that have completed, whatever the order
\* of completion.
C14_NewestCompletedWins ==
  \A root \in ProjectRoots :
    /\ contextCache[root].marker = MaxMarker(completed[root])
    /\ completed[root] # <<>> =>
         contextCache[root].context = ContextOf(root, MaxMarker(completed[root]))

\* C14 witness: an older recomputation completed after a newer one did
C14_Witness ==
  \E root \in ProjectRoots :
    /\ completed[root] = <<2, 1>>
    /\ contextCache[root] = [marker |-> 2, context |-> ContextOf(root, 2)]

\* C15: a failed load leaves the key absent from the cache; a request made
\* while the key is absent starts a fetch; and the catalog a later fetch
\* yields is cached and handed to the requests waiting for it.
C15_FailedLoadNotCached ==
  /\ [](\A i \in 1..Len(loadReqs) :
          /\ loadReqs[i].state = "resolved"
               => loadReqs[i].result = CatalogLoaded(loadReqs[i].key)
          /\ (loadReqs[i].state = "failed" /\ i = Len(loadReqs))
               => catalogCache[loadReqs[i].key].state = "absent")
  /\ [](\A key \in CatalogKeys :
          catalogCache[key].state = "loaded"
            => catalogCache[key] = CatalogLoaded(key))
  /\ [][\A key \in CatalogKeys :
          (catalogCache[key].state = "absent"
           /\ Len(loadReqs') > Len(loadReqs)
           /\ loadReqs'[Len(loadReqs')].key = key)
          => /\ fetchCount'[key] = fetchCount[key] + 1
             /\ catalogCache'[key].state = "pending"]_vars

\* C15 witness: a load of a key failed, the next request for the key started
\* a second fetch, and that request got the catalog
C15_Witness ==
  \E i, j \in 1..Len(loadReqs) :
    /\ i < j
    /\ loadReqs[i].key = loadReqs[j].key
    /\ loadReqs[i].state = "failed"
    /\ loadReqs[j].state = "resolved"
    /\ fetchCount[loadReqs[i].key] = 2
    /\ catalogCache[loadReqs[i].key] = CatalogLoaded(loadReqs[i].key)

\* C16: for a declared version of 1.38 or below, online or offline, the
\* resolution is the fallback version 1.71.49 with isFallback set; a
\* resolution is always a version, never an error.
C16_FallbackBelowMinimum ==
  verPc = "returned" =>
    /\ resolved.version \in PublishedVersions
    /\ (/\ declared.kind = "version"
        /\ \/ declared.version[1] < 1
           \/ declared.version[1] = 1 /\ declared.version[2] <= 38)
       => /\ resolved.version = <<1, 71, 49>>
          /\ resolved.isFallback

\* C16 witness: version 1.38 with the highest patch number was resolved online
C16_Witness ==
  /\ verPc = "returned"
  /\ online
  /\ declared = DeclaredVersion(<<1, 38, MaxPatch>>)
  /\ resolved.isFallback

(***************************************************************************)
(* Claims about the dispatch of file changes and the revalidation pass      *)
(***************************************************************************)
\* the suffixes in the order the dispatch tests them, and what each selects
SuffixOrder ==
  << [suffix |-> <<"manifest.json">>, fn |-> "reactOnManifestChange"],
     [suffix |-> <<"ui5.yaml">>, fn |-> "reactOnUI5YamlChange"],
     [suffix |-> <<".cds">>, fn |-> "push"],
     [suffix |-> <<".xml">>, fn |-> "reactOnXmlFileChange"],
     [suffix |-> <<"package.json">>, fn |-> "reactOnPackageJson"] >>

\* the calls the dispatch made for the i-th change
CallsFor(i) == SelectSeq(callLog, LAMBDA c : c.idx = i)

\* C17: for each change the dispatch makes at most one call, the one of the
\* first suffix in the order manifest.json, ui5.yaml, .cds, .xml,
\* package.json that the path ends with; a path that ends with none gets no
\* call; a .cds path is only added to the batch, no reaction is called for it.
C17_OneReactionByFirstSuffix ==
  wfPc # "idle" =>
    \A i \in 1..Len(changes) :
      LET matches == {k \in 1..Len(SuffixOrder) :
                        endsWith(changes[i], SuffixOrder[k].suffix)}
      IN /\ Len(CallsFor(i)) <= 1
         /\ matches = {} => (CallsFor(i) = <<>> /\ rx[i] = "none")
         /\ matches # {} =>
              LET first == CHOOSE k \in matches : \A l \in matches : k <= l
              IN /\ CallsFor(i) = <<[fn |-> SuffixOrder[first].fn, idx |-> i]>>
                 /\ SuffixOrder[first].fn = "push" <=> rx[i] = "batched"
                 /\ rx[i] = "batched" =>
                      \E k \in 1..Len(cdsFileEvents) :
                        cdsFileEvents[k] = changes[i]

\* C17 witness: a notification with a .cds change and a change that matches
\* no suffix was dispatched
C17_Witness ==
  /\ wfPc = "awaitCds"
  /\ \E i, j \in 1..Len(changes) :
       /\ rx[i] = "batched"
       /\ changes[j] = UOther
       /\ rx[j] = "none"

\* C20: the pass takes the open documents in the order of documents.all();
\* each message it sends is the diagnostics of the next document, computed
\* from the Context got for it, until a getContext returns a ContextError:
\* then one context-error notification is sent and the pass ends, so the
\* documents after it get nothing.
C20_PassInOrderUntilContextError ==
  PassRan =>
    /\ allDocuments = openDocs
    /\ Len(wfOut) <= Len(allDocuments)
    /\ \A k \in 1..Len(wfOut) :
         \/ /\ IsDiagnostics(wfOut[k])
            /\ wfOut[k].params.uri = allDocuments[k]
            /\ isContext(SourceOf(wfOut[k]))
         \/ /\ IsContextError(wfOut[k])
            /\ k = Len(wfOut)
            /\ wfPc = "returned"
    /\ wfPc = "awaitCtx" => vIdx = Len(wfOut) + 1
    /\ wfPc = "returned" =>
         \/ Len(wfOut) = Len(allDocuments)
         \/ IsContextError(wfOut[Len(wfOut)])

\* C20 witness: with two documents open, the pass ended on the ContextError
\* of the first
C20_Witness ==
  /\ PassRan
  /\ wfPc = "returned"
  /\ Len(allDocuments) = 2
  /\ Len(wfOut) = 1
  /\ IsContextError(wfOut[1])

(***************************************************************************)
(* Claims about content changes, initialization and closed documents        *)
(***************************************************************************)
\* the content-change handler has called getContext or sent something
ChangeGotContext ==
  /\ req.kind = "onDidChangeContent"
  /\ \/ req.pc \in {"awaitCtx", "awaitUrl"}
     \/ req.out # <<>>

\* C18: a content-change event calls getContext, and publishes diagnostics,
\* only for an XML view and only when onInitialize has started both initial
\* scans for a workspace root and both have completed; an event that arrives
\* while a scan was never started ends at once with nothing sent.
C18_ContentChangeAfterInitialization ==
  /\ [](ChangeGotContext =>
          /\ isXMLView(req.uri)
          /\ init.pc = "returned"
          /\ init.rootUri # "null"
          /\ manifestStateInitialized = "resolved"
          /\ ui5yamlStateInitialized = "resolved")
  /\ [](\A d \in Docs : clientDiagnostics[d] # <<>> => isXMLView(d))
  /\ [][(/\ req.pc = "idle"
         /\ req'.kind = "onDidChangeContent"
         /\ \/ manifestStateInitialized = "undefined"
            \/ ui5yamlStateInitialized = "undefined")
        => /\ req'.pc = "returned"
           /\ req'.out = <<>>
           /\ clientDiagnostics' = clientDiagnostics]_vars

\* C18 witness: after both initial scans completed, a content change of an
\* XML view ended with the diagnostics of that view published
C18_Witness ==
  /\ req.kind = "onDidChangeContent"
  /\ req.pc = "returned"
  /\ Len(req.out) = 2
  /\ clientDiagnostics[req.uri] = getXMLViewDiagnostics(req.uri, req.context)
  /\ clientDiagnostics[req.uri] # <<>>

\* C19: for an XML view that is closed, the diagnostics last published are
\* the empty list, whatever handler was in flight when it was closed.
C19_ClosedViewHasNoDiagnostics ==
  \A d \in Docs :
    (isXMLView(d) /\ ~isOpen(d)) => clientDiagnostics[d] = <<>>

(***************************************************************************)
(* Claims about per-document settings                                       *)
(***************************************************************************)
\* a step in which a workspace/configuration request is sent for document d
RequestsConfiguration(d) ==
  configurationRequests'[d] > configurationRequests[d]

\* a step in which a didChangeConfiguration notification is handled
ConfigurationChanged == configChanges' = configChanges + 1

\* requests are sent only with the capability and for a document without
\* cached settings, at most one per document between two clearing events;
\* with the capability a configuration change clears the cache
RequestedOnlyWhenMissing ==
  /\ [](\A d \in Docs : configurationRequests[d] <= 1)
  /\ [](~hasConfigurationCapability =>
          \A d \in Docs : configurationRequests[d] = 0)
  /\ [][\A d \in Docs :
          RequestsConfiguration(d) =>
            /\ hasConfigurationCapability
            /\ ~hasSettingsForDocument(settingsDocs, d)
            /\ hasSettingsForDocument(settingsDocs', d)]_vars
  /\ [][(ConfigurationChanged /\ hasConfigurationCapability) =>
          /\ settingsDocs' = {}
          /\ globalSettings' = globalSettings]_vars

\* C21: settings of a document are requested from the client only with the
\* workspace/configuration capability and when none are cached for it, so at
\* most one request per document is sent between two clearing events; without
\* the capability no request is sent, and every configuration change sets the
\* global settings to what it carries and leaves the cache alone.
C21_SettingsRequestedOncePerDocument ==
  /\ RequestedOnlyWhenMissing
  /\ [][(ConfigurationChanged /\ ~hasConfigurationCapability) =>
          /\ settingsDocs' = settingsDocs
          /\ globalSettings' = changeSettings']_vars

\* C21 amended: as C21, but without the capability a configuration change
\* sets the global settings only when it carries a UI5LanguageAssistant
\* section; without that section the global settings stay as they were.
C21_SettingsRequestedOncePerDocumentAmended ==
  /\ RequestedOnlyWhenMissing
  /\ [][(ConfigurationChanged /\ ~hasConfigurationCapability) =>
          /\ settingsDocs' = settingsDocs
          /\ globalSettings' = IF changeSettings' # NoSection
                               THEN changeSettings'
                               ELSE globalSettings]_vars

\* C21 witness: after a configuration change cleared the cache, a completion
\* request asked the client for the settings of its document, and a later
\* completion request for that document found them cached and asked nothing
C21_Witness ==
  /\ hasConfigurationCapability
  /\ configChanges >= 1
  /\ req.kind = "onCompletion"
  /\ req.pc = "returned"
  /\ req.calls = 0
  /\ configurationRequests[req.uri] = 1
  /\ hasSettingsForDocument(settingsDocs, req.uri)

====
